---- MODULE Spec2Model ----
(***************************************************************************)
(* Verification model of PerfectFrameAI's extractor service.               *)
(*                                                                         *)
(*   Spec        ExtractorManager: concurrent start_extractor calls and    *)
(*               the background tasks they schedule                        *)
(*               (extractor_service/app/extractor_manager.py).             *)
(*   SpecSampler OpenCVVideo.get_next_frames on one video                  *)
(*               (extractor_service/app/video_processors.py).              *)
(*   SpecJob     BestFramesExtractor.process on one input directory        *)
(*               (extractor_service/app/extractors.py).                    *)
(*   SpecSelect  the selection functions applied to one scored batch       *)
(*               (extractors.py, top_frames_selector.py).                  *)
(*   SpecTop     TopImagesExtractor.process on one input directory         *)
(*               (extractors.py).                                          *)
(*   SpecPipeline one process() call of either extractor.                  *)
(*   SpecRuns    BestFramesExtractor.process called repeatedly on the same *)
(*               directory.                                                *)
(*   SpecNima    _NIMAModel.get_model called from concurrent threads       *)
(*               (extractor_service/app/image_evaluators.py).              *)
(*   SpecEval    EvaluatorsManager and its worker threads                  *)
(*               (frames_evaluators_service/app/evaluators_manager.py).    *)
(***************************************************************************)
EXTENDS Integers, Sequences, FiniteSets, TLC

(***************************************************************************)
(* Bounds of the model.                                                    *)
(***************************************************************************)
MaxCalls == 2
\* video attributes are floats; the model counts them in halves
MaxFps2 == 5
MaxCount2 == 10
MaxBatch == 3
MaxRuns == 1
MaxFiles == 2
MaxVideoFrames == 3
MaxJobBatch == 2
MaxGroup == 2
MaxImages == 4
MaxJobRuns == 1
MaxPaths == 3
MaxTopBatch == 2
MaxScore == 3

Calls == 1..MaxCalls
\* two distinguishable ExtractorConfig values
Configs == {"cfgA", "cfgB"}

(***************************************************************************)
(* Values.  NoneVal stands for Python's None in _active_extractor and      *)
(* _config.                                                                *)
(***************************************************************************)
NoneVal == "None"
BestFramesName == "best_frames_extractor"
TopImagesName == "top_images_extractor"
UnknownName == "unknown_extractor"
KnownNames == {BestFramesName, TopImagesName}
Names == KnownNames \cup {UnknownName}

VARIABLES
    active_extractor,  \* ExtractorManager._active_extractor
    config,            \* ExtractorManager._config
    pc,                \* per call: position inside start_extractor
    cname,             \* per call: extractor_name argument
    ccfg,              \* per call: config argument
    result,            \* per call: what the call returned or raised
    errName,           \* per call: extractor named in the 409 detail
    task,              \* per call: position of its background task
    jobConfig,         \* per call: config its extractor was constructed with
    outcome,           \* per call: how process() ended
    seen,              \* history: what the call found when it began
    pendingAtStart,    \* history: the jobs admitted and unfinished when the call began
    changed            \* history: did the call's own steps alter manager state

mgrVars == <<active_extractor, config, pc, cname, ccfg, result, errName,
             task, jobConfig, outcome, seen, pendingAtStart, changed>>

VARIABLES
    vid,               \* the video file as OpenCV reports it (opens, fps, frame count, undecodable indices)
    batch_size,        \* get_next_frames argument
    gpc,               \* position of the get_next_frames generator
    frame_rate,        \* local of get_next_frames
    total_frames,      \* local of get_next_frames
    frame_index,       \* loop variable of get_next_frames
    frames_batch,      \* local of get_next_frames
    yielded,           \* the batches the consumer has received, in order
    released,          \* number of video_cap.release() calls
    gerr,              \* the exception get_next_frames ended with
    runs,              \* history: how many times the video was sampled before
    prev               \* history: outcome of the previous sampling of the video

samplerVars == <<vid, batch_size, gpc, frame_rate, total_frames, frame_index,
                 frames_batch, yielded, released, gerr, runs, prev>>

VARIABLES
    dir,               \* the input directory: per entry its name, suffix and kind
    bfcfg,             \* the ExtractorConfig of the BestFramesExtractor
    bfpc,              \* position inside BestFramesExtractor.process
    bferr,             \* the exception process() ended with
    videos_paths,      \* local of process: the listed videos, in listing order
    video_i,           \* position of the for loop over videos_paths
    evaluators,        \* number of image evaluators constructed
    handled,           \* batches of the current video taken from the generator
    saveTasks,         \* _save_images: the frame and state of each submitted save
    output,            \* the output directory: the frames written
    selectedOf,        \* history: per video the frames chosen for saving
    renamed,           \* history: the videos renamed by _add_prefix
    signalled,         \* _signal_readiness_for_shutdown was called
    scoredBy,          \* history: the evaluators (by order of construction) that scored a batch
    job_runs,          \* history: process() runs on the directory that ended before this one
    renamedBefore,     \* history: the videos renamed by the runs before this one
    opened             \* history: the videos this run began to extract, in that order

bfHist == <<job_runs, renamedBefore, opened>>

bfVars == <<dir, bfcfg, bfpc, bferr, videos_paths, video_i, evaluators, handled,
            saveTasks, output, selectedOf, renamed, signalled, scoredBy, bfHist>>

VARIABLES
    batch_scores,      \* the scores of a batch of images; image i is the i-th of the batch
    selector,          \* the selection last applied to the batch
    selector_arg,      \* its group size or percent
    selected,          \* the images it returned (or saved), in order, by batch position
    prev_top           \* history: percent and count of the top-percent selection before

selVars == <<batch_scores, selector, selector_arg, selected, prev_top>>

VARIABLES
    image_dir,         \* the input directory of images: per entry its suffix and whether it can be read
    top_batch_size,    \* config.batch_size of the TopImagesExtractor
    tpc,               \* position inside TopImagesExtractor.process
    terr,              \* the exception process() ended with
    images_paths,      \* local of process: the listed images, in listing order
    batch_index,       \* loop variable of process
    read_tasks,        \* _read_images: the state of each submitted read, in submission order
    batch_images,      \* local of process (images): what _read_images returned
    top_images,        \* local of process: what _get_top_percent_images returned
    top_evaluators,    \* number of image evaluators constructed
    top_scored,        \* history: per scored batch the evaluator that scored it
    top_saved          \* the images written to the output directory

topVars == <<image_dir, top_batch_size, tpc, terr, images_paths, batch_index,
             read_tasks, batch_images, top_images, top_evaluators, top_scored,
             top_saved>>

VARIABLES
    nima_model,        \* _NIMAModel._model: 0 for None, k for the k-th model constructed
    nima_config,       \* _NIMAModel._config
    weights_files,     \* the configs whose weights file exists on disk
    created,           \* number of models constructed so far
    downloads,         \* number of weights downloads that returned 200
    mpc,               \* per caller: position inside get_model
    mcfg,              \* per caller: config argument
    mpath,             \* per caller: config its model_weights_path was computed from
    mret,              \* per caller: the model get_model returned
    merr,              \* per caller: the exception get_model raised
    mjob,              \* per caller: the process() that asked for the evaluator
    mfound,            \* history: per caller the model it found cached on entry
    mdid,              \* history: per caller the operations its call performed
    mafter,            \* history: per caller whether an acquisition had failed before its entry
    was_reset          \* history: reset() was called

nimaVars == <<nima_model, nima_config, weights_files, created, downloads, mpc,
              mcfg, mpath, mret, merr, mjob, mfound, mdid, mafter, was_reset>>

VARIABLES
    active_evaluator,  \* EvaluatorsManager.active_evaluator
    epc,               \* per request: position inside start_evaluation_process
    ename,             \* per request: evaluator_class.__name__
    wpc,               \* per request: position of the worker thread it started
    woutcome           \* per request: how its worker's try block ended

evalVars == <<active_evaluator, epc, ename, wpc, woutcome>>

vars == <<mgrVars, samplerVars, bfVars, selVars, topVars, nimaVars, evalVars>>

(***************************************************************************)
(* ExtractorFactory.create_extractor: the match on the extractor name.     *)
(***************************************************************************)
create_extractor_default(extractor_name) ==
    IF extractor_name = TopImagesName THEN "TopImagesExtractor"
    ELSE "BestFramesExtractor"

create_extractor(extractor_name) ==
    CASE extractor_name = BestFramesName -> "BestFramesExtractor"
      [] extractor_name = TopImagesName  -> "TopImagesExtractor"
      [] OTHER                           -> "ValueError"

(***************************************************************************)
(* Derived views of a call's job.                                          *)
(***************************************************************************)
\* the job was admitted and its process() has not finished yet
JobPending(c) == task[c] \in {"scheduled", "set", "processing"}
\* the call has executed line 66 and not yet line 67
InFlight(c) == pc[c] = "check"
\* nothing admitted is unfinished and nothing is marked active
ManagerIdle ==
    /\ active_extractor = NoneVal
    /\ \A c \in Calls : task[c] \in {"none", "finished"}

\* what a beginning call finds: the tags recorded in seen
TagsAtStart(c) ==
    (IF ManagerIdle THEN {"idle"} ELSE {})
    \cup (IF ManagerIdle /\ \E d \in Calls \ {c} : InFlight(d)
          THEN {"raced"} ELSE {})
    \cup (IF \E d \in Calls : task[d] = "finished" /\ outcome[d] = "raised"
          THEN {"after_raise"} ELSE {})
    \cup (IF \E d \in Calls : result[d] = "ValueError"
          THEN {"after_value_error"} ELSE {})

MgrInit ==
    /\ active_extractor = NoneVal
    /\ config = NoneVal
    /\ pc = [c \in Calls |-> "idle"]
    /\ cname = [c \in Calls |-> NoneVal]
    /\ ccfg = [c \in Calls |-> NoneVal]
    /\ result = [c \in Calls |-> "pending"]
    /\ errName = [c \in Calls |-> NoneVal]
    /\ task = [c \in Calls |-> "none"]
    /\ jobConfig = [c \in Calls |-> "unset"]
    /\ outcome = [c \in Calls |-> "unset"]
    /\ seen = [c \in Calls |-> {}]
    /\ pendingAtStart = [c \in Calls |-> {}]
    /\ changed = [c \in Calls |-> FALSE]

(***************************************************************************)
(* start_extractor, line 66: a request arrives with a name and a config    *)
(* and stores the config in the class attribute.  Requests are numbered in *)
(* the order in which they arrive.                                         *)
(***************************************************************************)
StartStoreConfig(c, name, cfg) ==
    /\ pc[c] = "idle"
    /\ \A d \in Calls : d < c => pc[d] # "idle"
    /\ pc' = [pc EXCEPT ![c] = "check"]
    /\ cname' = [cname EXCEPT ![c] = name]
    /\ ccfg' = [ccfg EXCEPT ![c] = cfg]
    /\ config' = cfg
    /\ seen' = [d \in Calls |->
                  IF d = c THEN TagsAtStart(c)
                  ELSE IF InFlight(d) /\ "idle" \in seen[d] /\ ManagerIdle
                       THEN seen[d] \cup {"raced"}
                       ELSE seen[d]]
    /\ pendingAtStart' = [pendingAtStart EXCEPT ![c] = {d \in Calls : JobPending(d)}]
    /\ changed' = [changed EXCEPT ![c] = (config # cfg)]
    /\ UNCHANGED <<active_extractor, result, errName, task, jobConfig, outcome>>

(***************************************************************************)
(* start_extractor, lines 67-71.  _check_is_already_extracting reads       *)
(* _active_extractor once (line 97); create_extractor and add_task touch   *)
(* only the request's own objects, so the three lines are one step.  The   *)
(* scheduled task runs after the response has been sent.                   *)
(***************************************************************************)
CheckCreateAddTask_marksActive(c) ==
    /\ pc[c] = "check"
    /\ pc' = [pc EXCEPT ![c] = "done"]
    /\ IF active_extractor # NoneVal
       THEN /\ result' = [result EXCEPT ![c] = "409"]
            /\ errName' = [errName EXCEPT ![c] = active_extractor]
            /\ UNCHANGED <<task, changed, active_extractor>>
       ELSE IF create_extractor(cname[c]) = "ValueError"
       THEN /\ result' = [result EXCEPT ![c] = "ValueError"]
            /\ UNCHANGED <<errName, task, changed, active_extractor>>
       ELSE /\ task' = [task EXCEPT ![c] = "scheduled"]
            /\ result' = [result EXCEPT ![c] = "started"]
            /\ changed' = [changed EXCEPT ![c] = TRUE]
            /\ active_extractor' = cname[c]
            /\ UNCHANGED errName
    /\ UNCHANGED <<config, cname, ccfg, jobConfig, outcome, seen, pendingAtStart>>

CheckCreateAddTask(c) ==
    /\ pc[c] = "check"
    /\ pc' = [pc EXCEPT ![c] = "done"]
    /\ IF active_extractor # NoneVal
       THEN /\ result' = [result EXCEPT ![c] = "409"]
            /\ errName' = [errName EXCEPT ![c] = active_extractor]
            /\ UNCHANGED <<task, changed>>
       ELSE IF create_extractor(cname[c]) = "ValueError"
       THEN /\ result' = [result EXCEPT ![c] = "ValueError"]
            /\ UNCHANGED <<errName, task, changed>>
       ELSE /\ task' = [task EXCEPT ![c] = "scheduled"]
            /\ result' = [result EXCEPT ![c] = "started"]
            /\ changed' = [changed EXCEPT ![c] = TRUE]
            /\ UNCHANGED errName
    /\ UNCHANGED <<active_extractor, config, cname, ccfg, jobConfig,
                   outcome, seen, pendingAtStart>>

(***************************************************************************)
(* __run_extractor, line 83.                                               *)
(***************************************************************************)
RunSetActive(c) ==
    /\ task[c] = "scheduled"
    /\ active_extractor' = cname[c]
    /\ task' = [task EXCEPT ![c] = "set"]
    /\ UNCHANGED <<config, pc, cname, ccfg, result, errName, jobConfig,
                   outcome, seen, pendingAtStart, changed>>

(***************************************************************************)
(* __run_extractor, line 84: extractor(cls._config) reads the class        *)
(* attribute, then process() begins.                                       *)
(***************************************************************************)
RunConstruct(c) ==
    /\ task[c] = "set"
    /\ jobConfig' = [jobConfig EXCEPT ![c] = config]
    /\ task' = [task EXCEPT ![c] = "processing"]
    /\ UNCHANGED <<active_extractor, config, pc, cname, ccfg, result, errName,
                   outcome, seen, pendingAtStart, changed>>

(***************************************************************************)
(* __run_extractor, lines 84-86: process() returns or raises and the       *)
(* finally block clears _active_extractor.  A job constructed with None    *)
(* cannot return: process() dereferences self._config at once.             *)
(***************************************************************************)
ProcessEndClearActive_onlyOnSuccess(c, how) ==
    /\ task[c] = "processing"
    /\ how = "returned" => jobConfig[c] # NoneVal
    /\ outcome' = [outcome EXCEPT ![c] = how]
    /\ active_extractor' = IF how = "returned" THEN NoneVal ELSE active_extractor
    /\ task' = [task EXCEPT ![c] = "f87"]
    /\ UNCHANGED <<config, pc, cname, ccfg, result, errName, jobConfig,
                   seen, pendingAtStart, changed>>

ProcessEndClearActive(c, how) ==
    /\ task[c] = "processing"
    /\ how = "returned" => jobConfig[c] # NoneVal
    /\ outcome' = [outcome EXCEPT ![c] = how]
    /\ active_extractor' = NoneVal
    /\ task' = [task EXCEPT ![c] = "f87"]
    /\ UNCHANGED <<config, pc, cname, ccfg, result, errName, jobConfig,
                   seen, pendingAtStart, changed>>

(***************************************************************************)
(* __run_extractor, finally block, line 87.                                *)
(***************************************************************************)
FinallyClearConfig(c) ==
    /\ task[c] = "f87"
    /\ config' = NoneVal
    /\ task' = [task EXCEPT ![c] = "finished"]
    /\ UNCHANGED <<active_extractor, pc, cname, ccfg, result, errName,
                   jobConfig, outcome, seen, pendingAtStart, changed>>

MgrNext ==
    \/ \E c \in Calls, name \in Names, cfg \in Configs : StartStoreConfig(c, name, cfg)
    \/ \E c \in Calls : CheckCreateAddTask(c)
    \/ \E c \in Calls : RunSetActive(c)
    \/ \E c \in Calls : RunConstruct(c)
    \/ \E c \in Calls, how \in {"returned", "raised"} : ProcessEndClearActive(c, how)
    \/ \E c \in Calls : FinallyClearConfig(c)

(***************************************************************************)
(* OpenCVVideo.get_next_frames (extractor_service/app/video_processors.py).*)
(* A frame is named by its index and by whether it decoded.                *)
(***************************************************************************)
Fps2Values == (0 - 1)..MaxFps2
Count2Values == (0 - 1)..MaxCount2
BatchSizes == 0..MaxBatch
\* at most one undecodable index per video
BadSets == {{}} \cup {{i} : i \in 0..(MaxCount2 \div 2)}
Videos == [opens : BOOLEAN, fps2 : Fps2Values, count2 : Count2Values, bad : BadSets]

\* Python's int(round(x)) for x = halves / 2 > 0: ties go to the even integer
PyRound(halves) ==
    LET q == halves \div 2
    IN  IF halves % 2 = 0 THEN q
        ELSE IF q % 2 = 0 THEN q ELSE q + 1

\* range(0, stop, step) still has index to deliver
RangeHas_inclusive(index, stop) == index <= stop

RangeHas(index, stop) == index < stop

\* video.read() after seeking to frame_index: None when it cannot decode
ReadFrame(v, index) == [index |-> index, decoded |-> index \notin v.bad]

RECURSIVE Flatten(_)
Flatten(batches) ==
    IF batches = <<>> THEN <<>>
    ELSE Head(batches) \o Flatten(Tail(batches))

SamplerOff ==
    /\ vid = [opens |-> FALSE, fps2 |-> 0, count2 |-> 0, bad |-> {}]
    /\ batch_size = 0
    /\ gpc = "off"
    /\ frame_rate = 0
    /\ total_frames = 0
    /\ frame_index = 0
    /\ frames_batch = <<>>
    /\ yielded = <<>>
    /\ released = 0
    /\ gerr = NoneVal
    /\ runs = 0
    /\ prev = [state |-> "none", k |-> 0, flat |-> <<>>]

\* get_next_frames(video_path, batch_size) is called on some video
SamplerInit ==
    /\ vid \in Videos
    /\ batch_size \in BatchSizes
    /\ gpc = "start"
    /\ frame_rate = 0
    /\ total_frames = 0
    /\ frame_index = 0
    /\ frames_batch = <<>>
    /\ yielded = <<>>
    /\ released = 0
    /\ gerr = NoneVal
    /\ runs = 0
    /\ prev = [state |-> "none", k |-> 0, flat |-> <<>>]

\* an exception leaves the with block: _video_capture's finally releases
Fail(error) ==
    /\ gerr' = error
    /\ released' = released + 1
    /\ gpc' = "failed"

(***************************************************************************)
(* _video_capture, lines 78-85: open the capture, raise if it is not open. *)
(***************************************************************************)
OpenVideoCapture ==
    /\ gpc = "start"
    /\ IF vid.opens
       THEN /\ gpc' = "opened"
            /\ UNCHANGED <<gerr, released>>
       ELSE Fail("CantOpenVideoCapture")
    /\ UNCHANGED <<vid, batch_size, frame_rate, total_frames, frame_index,
                   frames_batch, yielded, runs, prev>>

(***************************************************************************)
(* get_next_frames, lines 106-107, with _get_video_attribute.              *)
(***************************************************************************)
GetFrameRate ==
    /\ gpc = "opened"
    /\ IF vid.fps2 <= 0
       THEN /\ Fail("ValueError")
            /\ UNCHANGED frame_rate
       ELSE /\ frame_rate' = PyRound(vid.fps2)
            /\ gpc' = "have_rate"
            /\ UNCHANGED <<gerr, released>>
    /\ UNCHANGED <<vid, batch_size, total_frames, frame_index, frames_batch,
                   yielded, runs, prev>>

(***************************************************************************)
(* get_next_frames, lines 108-110, with _get_video_attribute.              *)
(***************************************************************************)
GetTotalFrames_unchecked ==
    /\ gpc = "have_rate"
    /\ total_frames' = PyRound(vid.count2)
    /\ frames_batch' = <<>>
    /\ gpc' = "have_total"
    /\ UNCHANGED <<vid, batch_size, frame_rate, frame_index, yielded, released,
                   gerr, runs, prev>>

GetTotalFrames ==
    /\ gpc = "have_rate"
    /\ IF vid.count2 <= 0
       THEN /\ Fail("ValueError")
            /\ UNCHANGED <<total_frames, frames_batch>>
       ELSE /\ total_frames' = PyRound(vid.count2)
            /\ frames_batch' = <<>>
            /\ gpc' = "have_total"
            /\ UNCHANGED <<gerr, released>>
    /\ UNCHANGED <<vid, batch_size, frame_rate, frame_index, yielded, runs, prev>>

(***************************************************************************)
(* get_next_frames, line 112: range(0, total_frames, frame_rate); a zero   *)
(* step raises ValueError.                                                 *)
(***************************************************************************)
RangeInit ==
    /\ gpc = "have_total"
    /\ IF frame_rate = 0
       THEN /\ Fail("ValueError")
            /\ UNCHANGED frame_index
       ELSE /\ frame_index' = 0
            /\ gpc' = "loop"
            /\ UNCHANGED <<gerr, released>>
    /\ UNCHANGED <<vid, batch_size, frame_rate, total_frames, frames_batch,
                   yielded, runs, prev>>

(***************************************************************************)
(* get_next_frames, lines 112-118: one iteration of the loop up to the     *)
(* yield of a full batch.                                                  *)
(***************************************************************************)
ReadNextFrame ==
    /\ gpc = "loop"
    /\ RangeHas(frame_index, total_frames)
    /\ LET batch == Append(frames_batch, ReadFrame(vid, frame_index))
       IN  /\ frames_batch' = batch
           /\ IF Len(batch) = batch_size
              THEN /\ yielded' = Append(yielded, batch)
                   /\ gpc' = "yield_full"
              ELSE /\ gpc' = "loop"
                   /\ UNCHANGED yielded
    /\ frame_index' = frame_index + frame_rate
    /\ UNCHANGED <<vid, batch_size, frame_rate, total_frames, released, gerr,
                   runs, prev>>

(***************************************************************************)
(* get_next_frames, line 113, with _read_next_frame, line 137:             *)
(* _check_video_capture finds the capture no longer opened and raises.     *)
(***************************************************************************)
ReadNextFrameNotOpened ==
    /\ gpc = "loop"
    /\ RangeHas(frame_index, total_frames)
    /\ Fail("ValueError")
    /\ UNCHANGED <<vid, batch_size, frame_rate, total_frames, frame_index,
                   frames_batch, yielded, runs, prev>>

(***************************************************************************)
(* get_next_frames, line 119: the consumer asks for the next batch.        *)
(***************************************************************************)
ResumeAfterFull_keepsBatch ==
    /\ gpc = "yield_full"
    /\ gpc' = "loop"
    /\ UNCHANGED <<vid, batch_size, frame_rate, total_frames, frame_index,
                   frames_batch, yielded, released, gerr, runs, prev>>

ResumeAfterFull ==
    /\ gpc = "yield_full"
    /\ frames_batch' = <<>>
    /\ gpc' = "loop"
    /\ UNCHANGED <<vid, batch_size, frame_rate, total_frames, frame_index,
                   yielded, released, gerr, runs, prev>>

(***************************************************************************)
(* get_next_frames, lines 120-122: the range is exhausted; a non-empty     *)
(* rest is yielded, otherwise the with block ends and releases.            *)
(***************************************************************************)
LoopEnd_dropsRest ==
    /\ gpc = "loop"
    /\ ~RangeHas(frame_index, total_frames)
    /\ released' = released + 1
    /\ gpc' = "done"
    /\ UNCHANGED <<vid, batch_size, frame_rate, total_frames, frame_index,
                   frames_batch, yielded, gerr, runs, prev>>

LoopEnd ==
    /\ gpc = "loop"
    /\ ~RangeHas(frame_index, total_frames)
    /\ IF frames_batch # <<>>
       THEN /\ yielded' = Append(yielded, frames_batch)
            /\ gpc' = "yield_last"
            /\ UNCHANGED released
       ELSE /\ released' = released + 1
            /\ gpc' = "done"
            /\ UNCHANGED yielded
    /\ UNCHANGED <<vid, batch_size, frame_rate, total_frames, frame_index,
                   frames_batch, gerr, runs, prev>>

(***************************************************************************)
(* get_next_frames after the last yield: the with block ends.              *)
(***************************************************************************)
ResumeAfterLast ==
    /\ gpc = "yield_last"
    /\ released' = released + 1
    /\ gpc' = "done"
    /\ UNCHANGED <<vid, batch_size, frame_rate, total_frames, frame_index,
                   frames_batch, yielded, gerr, runs, prev>>

(***************************************************************************)
(* The same video is sampled again with another batch size.                *)
(***************************************************************************)
SampleAgain(k) ==
    /\ gpc \in {"done", "failed"}
    /\ runs < MaxRuns
    /\ runs' = runs + 1
    /\ prev' = [state |-> gpc, k |-> batch_size, flat |-> Flatten(yielded)]
    /\ batch_size' = k
    /\ gpc' = "start"
    /\ frame_rate' = 0
    /\ total_frames' = 0
    /\ frame_index' = 0
    /\ frames_batch' = <<>>
    /\ yielded' = <<>>
    /\ released' = 0
    /\ gerr' = NoneVal
    /\ UNCHANGED vid

SamplerNext ==
    \/ OpenVideoCapture
    \/ GetFrameRate
    \/ GetTotalFrames
    \/ RangeInit
    \/ ReadNextFrame
    \/ ReadNextFrameNotOpened
    \/ ResumeAfterFull
    \/ LoopEnd
    \/ ResumeAfterLast
    \/ \E k \in BatchSizes : SampleAgain(k)

(***************************************************************************)
(* BestFramesExtractor (extractor_service/app/extractors.py).              *)
(***************************************************************************)
Files == 1..MaxFiles
Stems == <<"a", "b", "c", "d", "e">>
ProcessedVideoPrefix == "frames_extracted_"
VideoExtensions == {".mp4"}
\* a file name is its sequence of parts; the suffix is kept apart
Entries == [name : {<<Stems[f]>> : f \in Files}
                     \cup {<<ProcessedVideoPrefix, Stems[f]>> : f \in Files},
            suffix : {".mp4", ".txt"},
            is_file : BOOLEAN]
\* ExtractorConfig declares batch_size and compering_group_size as plain
\* ints: zero is a value a request can carry
JobConfigs == [batch_size : 0..MaxJobBatch,
               compering_group_size : 0..MaxGroup,
               all_frames : BOOLEAN]
\* what a listed video turns out to be when it is opened: one frame per
\* second, up to MaxVideoFrames frames or an invalid frame count
JobVideos == [opens : BOOLEAN, fps2 : {2},
              count2 : {0} \cup {2 * n : n \in 1..MaxVideoFrames},
              bad : {{}, {0}}]
ScoreValues == {1, 2}

\* str.startswith
StartsWith(name, prefix) == Len(name) >= 1 /\ name[1] = prefix

\* the filter of _list_input_directory_files, lines 100-103
Matches_ignoresPrefix(entry, extensions, prefix) ==
    /\ entry.is_file
    /\ entry.suffix \in extensions

Matches(entry, extensions, prefix) ==
    /\ entry.is_file
    /\ entry.suffix \in extensions
    /\ (prefix = NoneVal \/ ~StartsWith(entry.name, prefix))

\* the orders in which iterdir may deliver the files of S
Orders(S) ==
    {s \in [1..Cardinality(S) -> S] : \A i, j \in DOMAIN s : i # j => s[i] # s[j]}

\* np.argmax over scores[lo..hi]: the first position of the maximum
ArgMax_lowestIndex(scores, lo, hi) == lo

ArgMax(scores, lo, hi) ==
    CHOOSE i \in lo..hi :
        /\ \A j \in lo..hi : scores[j] <= scores[i]
        /\ \A j \in lo..(i - 1) : scores[j] < scores[i]

Min(a, b) == IF a < b THEN a ELSE b

\* np.arange(start, stop, step) for step >= 1
Arange(start, stop, step) ==
    LET members == {x \in start..(stop - 1) : (x - start) % step = 0}
    IN  [i \in 1..Cardinality(members) |-> start + (i - 1) * step]

\* np.array_split(ary, indices): ary[:i1], ary[i1:i2], ..., ary[ik:]
ArraySplit(ary, indices) ==
    [g \in 1..(Len(indices) + 1) |->
        SubSeq(ary,
               IF g = 1 THEN 1 ELSE indices[g - 1] + 1,
               IF g = Len(indices) + 1 THEN Len(ary) ELSE indices[g])]

\* _get_best_frames, lines 296-304: the best frame of each group
GetBestFrames_tiesToLast(frames, scores, group_size) ==
    LET groups == ArraySplit(scores, Arange(group_size, Len(scores), group_size))
        last(group) == CHOOSE i \in DOMAIN group :
                          /\ \A j \in DOMAIN group : group[j] <= group[i]
                          /\ \A j \in DOMAIN group : j > i => group[j] < group[i]
    IN  [g \in 1..Len(groups) |-> frames[(g - 1) * group_size + last(groups[g])]]

GetBestFrames(frames, scores, group_size) ==
    LET groups == ArraySplit(scores, Arange(group_size, Len(scores), group_size))
    IN  [g \in 1..Len(groups) |->
            frames[(g - 1) * group_size + ArgMax(groups[g], 1, Len(groups[g]))]]

\* the with ThreadPoolExecutor block has ended: every submitted save is over
SavesSettled_noWait(tasks) == TRUE

SavesSettled(tasks) == \A i \in DOMAIN tasks : tasks[i].state # "pending"

CurrentVideo == videos_paths[video_i]

JobOff ==
    /\ dir = [f \in Files |-> [name |-> <<Stems[f]>>, suffix |-> ".txt", is_file |-> TRUE]]
    /\ bfcfg = [batch_size |-> 1, compering_group_size |-> 1, all_frames |-> FALSE]
    /\ bfpc = "off"
    /\ bferr = NoneVal
    /\ videos_paths = <<>>
    /\ video_i = 0
    /\ evaluators = 0
    /\ handled = 0
    /\ saveTasks = <<>>
    /\ output = {}
    /\ selectedOf = [f \in Files |-> {}]
    /\ renamed = {}
    /\ signalled = FALSE
    /\ scoredBy = {}
    /\ job_runs = 0
    /\ renamedBefore = {}
    /\ opened = <<>>

\* process() is called on some directory with some configuration
JobInit ==
    /\ dir \in {d \in [Files -> Entries] :
                  \A f \in Files : d[f].name[Len(d[f].name)] = Stems[f]}
    /\ bfcfg \in JobConfigs
    /\ bfpc = "start"
    /\ bferr = NoneVal
    /\ videos_paths = <<>>
    /\ video_i = 0
    /\ evaluators = 0
    /\ handled = 0
    /\ saveTasks = <<>>
    /\ output = {}
    /\ selectedOf = [f \in Files |-> {}]
    /\ renamed = {}
    /\ signalled = FALSE
    /\ scoredBy = {}
    /\ job_runs = 0
    /\ renamedBefore = {}
    /\ opened = <<>>

\* an exception leaves process()
JobRaise(error) ==
    /\ bferr' = error
    /\ bfpc' = "raised"

\* the generator object is dropped while suspended at a yield: GeneratorExit
\* unwinds the with block and _video_capture's finally releases
CloseGenerator_noRelease ==
    /\ gpc' = "closed"
    /\ UNCHANGED <<vid, batch_size, frame_rate, total_frames, frame_index,
                   frames_batch, yielded, released, gerr, runs, prev>>

CloseGenerator ==
    /\ gpc' = "closed"
    /\ released' = released + 1
    /\ UNCHANGED <<vid, batch_size, frame_rate, total_frames, frame_index,
                   frames_batch, yielded, gerr, runs, prev>>

(***************************************************************************)
(* process, lines 251-252: _list_input_directory_files (lines 97-117).     *)
(***************************************************************************)
ListInputDirectoryFiles ==
    /\ bfpc = "start"
    /\ LET files == {f \in Files :
                       Matches(dir[f], VideoExtensions, ProcessedVideoPrefix)}
       IN  IF files = {}
           THEN /\ JobRaise("EmptyInputDirectoryError")
                /\ UNCHANGED videos_paths
           ELSE /\ videos_paths' \in Orders(files)
                /\ bfpc' = "evaluator"
                /\ UNCHANGED bferr
    /\ UNCHANGED <<scoredBy, bfHist>>
    /\ UNCHANGED <<dir, bfcfg, video_i, evaluators, handled, saveTasks, output,
                   selectedOf, renamed, signalled>>
    /\ UNCHANGED samplerVars

(***************************************************************************)
(* process, lines 253-254: _get_image_evaluator unless all_frames; the     *)
(* construction may fail (model weights).                                  *)
(***************************************************************************)
GetImageEvaluator(ok) ==
    /\ bfpc = "evaluator"
    /\ IF bfcfg.all_frames
       THEN /\ ok
            /\ bfpc' = "next_video"
            /\ video_i' = 1
            /\ UNCHANGED <<evaluators, bferr>>
       ELSE IF ok
       THEN /\ evaluators' = evaluators + 1
            /\ bfpc' = "next_video"
            /\ video_i' = 1
            /\ UNCHANGED bferr
       ELSE /\ JobRaise("DownloadingModelWeightsError")
            /\ UNCHANGED <<evaluators, video_i>>
    /\ UNCHANGED <<scoredBy, bfHist>>
    /\ UNCHANGED <<dir, bfcfg, videos_paths, handled, saveTasks, output,
                   selectedOf, renamed, signalled>>
    /\ UNCHANGED samplerVars

(***************************************************************************)
(* process, line 255-256, and _extract_best_frames, lines 269-271: the     *)
(* next video's generator is created.                                      *)
(***************************************************************************)
StartVideo_newEvaluator(video) ==
    /\ bfpc = "next_video"
    /\ video_i <= Len(videos_paths)
    /\ vid' = video
    /\ batch_size' = bfcfg.batch_size
    /\ gpc' = "start"
    /\ frame_rate' = 0
    /\ total_frames' = 0
    /\ frame_index' = 0
    /\ frames_batch' = <<>>
    /\ yielded' = <<>>
    /\ released' = 0
    /\ gerr' = NoneVal
    /\ UNCHANGED <<runs, prev>>
    /\ handled' = 0
    /\ bfpc' = "sampling"
    /\ opened' = Append(opened, CurrentVideo)
    /\ UNCHANGED <<scoredBy, job_runs, renamedBefore>>
    /\ evaluators' = evaluators + 1
    /\ UNCHANGED <<dir, bfcfg, bferr, videos_paths, video_i,
                   saveTasks, output, selectedOf, renamed, signalled>>

StartVideo(video) ==
    /\ bfpc = "next_video"
    /\ video_i <= Len(videos_paths)
    /\ vid' = video
    /\ batch_size' = bfcfg.batch_size
    /\ gpc' = "start"
    /\ frame_rate' = 0
    /\ total_frames' = 0
    /\ frame_index' = 0
    /\ frames_batch' = <<>>
    /\ yielded' = <<>>
    /\ released' = 0
    /\ gerr' = NoneVal
    /\ UNCHANGED <<runs, prev>>
    /\ handled' = 0
    /\ bfpc' = "sampling"
    /\ opened' = Append(opened, CurrentVideo)
    /\ UNCHANGED <<scoredBy, job_runs, renamedBefore>>
    /\ UNCHANGED <<dir, bfcfg, bferr, videos_paths, video_i, evaluators,
                   saveTasks, output, selectedOf, renamed, signalled>>

\* the generator runs until it yields, ends or raises
SamplerRuns ==
    /\ bfpc = "sampling"
    /\ \/ OpenVideoCapture
       \/ GetFrameRate
       \/ GetTotalFrames
       \/ RangeInit
       \/ ReadNextFrame
       \/ ReadNextFrameNotOpened
       \/ LoopEnd
    /\ UNCHANGED bfVars

\* an exception of get_next_frames propagates out of process()
SamplerRaised_skipsVideo ==
    /\ bfpc = "sampling"
    /\ gpc = "failed"
    /\ video_i' = video_i + 1
    /\ bfpc' = "next_video"
    /\ UNCHANGED <<scoredBy, bfHist>>
    /\ UNCHANGED <<dir, bfcfg, bferr, videos_paths, evaluators, handled,
                   saveTasks, output, selectedOf, renamed, signalled>>
    /\ UNCHANGED samplerVars

SamplerRaised ==
    /\ bfpc = "sampling"
    /\ gpc = "failed"
    /\ JobRaise(gerr)
    /\ UNCHANGED <<scoredBy, bfHist>>
    /\ UNCHANGED <<dir, bfcfg, videos_paths, video_i, evaluators, handled,
                   saveTasks, output, selectedOf, renamed, signalled>>
    /\ UNCHANGED samplerVars

(***************************************************************************)
(* _extract_best_frames, lines 272-278 up to the submission of the saves:  *)
(* a yielded batch is scored and selected (unless all_frames) and one save *)
(* per chosen frame is submitted.  Normalizing an undecoded frame raises;  *)
(* scoring may raise; np.arange with a zero group size raises.             *)
(***************************************************************************)
TakeBatch(scores, ok) ==
    /\ bfpc = "sampling"
    /\ gpc \in {"yield_full", "yield_last"}
    /\ LET frames == yielded[Len(yielded)]
           undecoded == \E i \in DOMAIN frames : ~frames[i].decoded
       IN  /\ DOMAIN scores = DOMAIN frames
           /\ handled' = handled + 1
           /\ scoredBy' = IF bfcfg.all_frames \/ undecoded THEN scoredBy
                          ELSE scoredBy \cup {evaluators}
           /\ IF ~bfcfg.all_frames
                    /\ (undecoded \/ ~ok \/ bfcfg.compering_group_size = 0)
              THEN /\ JobRaise(IF undecoded THEN "cv2.error"
                               ELSE IF ~ok THEN "EvaluationError"
                               ELSE "ZeroDivisionError")
                   /\ CloseGenerator
                   /\ UNCHANGED <<saveTasks, selectedOf>>
              ELSE LET chosen == IF bfcfg.all_frames THEN frames
                                 ELSE GetBestFrames(frames, scores,
                                                    bfcfg.compering_group_size)
                   IN  /\ ok
                       /\ saveTasks' = [i \in DOMAIN chosen |->
                                          [frame |-> chosen[i], state |-> "pending"]]
                       /\ selectedOf' = [selectedOf EXCEPT ![CurrentVideo] =
                                           @ \cup {chosen[i].index : i \in DOMAIN chosen}]
                       /\ bfpc' = "saving"
                       /\ UNCHANGED bferr
                       /\ UNCHANGED samplerVars
    /\ UNCHANGED bfHist
    /\ UNCHANGED <<dir, bfcfg, videos_paths, video_i, evaluators, output,
                   renamed, signalled>>

(***************************************************************************)
(* _save_images, lines 161-165: one submitted save_image runs in a pool    *)
(* thread; it writes the frame or raises (an undecoded frame always does). *)
(***************************************************************************)
SaveImage(i, ok) ==
    /\ bfpc = "saving"
    /\ i \in DOMAIN saveTasks
    /\ saveTasks[i].state = "pending"
    /\ ok => saveTasks[i].frame.decoded
    /\ saveTasks' = [saveTasks EXCEPT ![i].state = IF ok THEN "written" ELSE "raised"]
    /\ output' = IF ok THEN output \cup {[video |-> CurrentVideo,
                                          index |-> saveTasks[i].frame.index]}
                 ELSE output
    /\ UNCHANGED <<scoredBy, bfHist>>
    /\ UNCHANGED <<dir, bfcfg, bfpc, bferr, videos_paths, video_i, evaluators,
                   handled, selectedOf, renamed, signalled>>
    /\ UNCHANGED samplerVars

(***************************************************************************)
(* _save_images, lines 166-167 and the end of the with block: the results  *)
(* are collected; a save's exception propagates out of process(),          *)
(* otherwise the generator is resumed (lines 279-280, 272).                *)
(***************************************************************************)
SavesJoin ==
    /\ bfpc = "saving"
    /\ SavesSettled(saveTasks)
    /\ IF \E i \in DOMAIN saveTasks : saveTasks[i].state = "raised"
       THEN /\ JobRaise("SaveError")
            /\ CloseGenerator
       ELSE /\ bfpc' = "sampling"
            /\ UNCHANGED bferr
            /\ \/ ResumeAfterFull
               \/ ResumeAfterLast
    /\ UNCHANGED <<scoredBy, bfHist>>
    /\ UNCHANGED <<dir, bfcfg, videos_paths, video_i, evaluators, handled,
                   saveTasks, output, selectedOf, renamed, signalled>>

(***************************************************************************)
(* process, lines 257-258, with _add_prefix (lines 196-200): the generator *)
(* is exhausted and the video is renamed.                                  *)
(***************************************************************************)
AddPrefix ==
    /\ bfpc = "sampling"
    /\ gpc = "done"
    /\ dir' = [dir EXCEPT ![CurrentVideo].name = <<ProcessedVideoPrefix>> \o @]
    /\ renamed' = renamed \cup {CurrentVideo}
    /\ video_i' = video_i + 1
    /\ bfpc' = "next_video"
    /\ UNCHANGED <<scoredBy, bfHist>>
    /\ UNCHANGED <<bfcfg, bferr, videos_paths, evaluators, handled, saveTasks,
                   output, selectedOf, signalled>>
    /\ UNCHANGED samplerVars

(***************************************************************************)
(* process, lines 259-260: every video is done.                            *)
(***************************************************************************)
SignalReadiness ==
    /\ bfpc = "next_video"
    /\ video_i > Len(videos_paths)
    /\ signalled' = TRUE
    /\ bfpc' = "finished"
    /\ UNCHANGED <<scoredBy, bfHist>>
    /\ UNCHANGED <<dir, bfcfg, bferr, videos_paths, video_i, evaluators, handled,
                   saveTasks, output, selectedOf, renamed>>
    /\ UNCHANGED samplerVars

(***************************************************************************)
(* process() is called again on the same directory, with the same          *)
(* configuration, after the previous run ended (lines 244-260 anew): the   *)
(* directory and the output stay as the previous run left them.            *)
(***************************************************************************)
RunAgain ==
    /\ bfpc \in {"finished", "raised"}
    /\ job_runs < MaxJobRuns
    /\ job_runs' = job_runs + 1
    /\ renamedBefore' = renamed
    /\ opened' = <<>>
    /\ bfpc' = "start"
    /\ bferr' = NoneVal
    /\ videos_paths' = <<>>
    /\ video_i' = 0
    /\ evaluators' = 0
    /\ handled' = 0
    /\ saveTasks' = <<>>
    /\ signalled' = FALSE
    /\ scoredBy' = {}
    /\ vid' = [opens |-> FALSE, fps2 |-> 0, count2 |-> 0, bad |-> {}]
    /\ batch_size' = 0
    /\ gpc' = "off"
    /\ frame_rate' = 0
    /\ total_frames' = 0
    /\ frame_index' = 0
    /\ frames_batch' = <<>>
    /\ yielded' = <<>>
    /\ released' = 0
    /\ gerr' = NoneVal
    /\ UNCHANGED <<runs, prev>>
    /\ UNCHANGED <<dir, bfcfg, output, selectedOf, renamed>>

JobNext ==
    \/ ListInputDirectoryFiles
    \/ \E ok \in BOOLEAN : GetImageEvaluator(ok)
    \/ \E video \in JobVideos : StartVideo(video)
    \/ SamplerRuns
    \/ SamplerRaised
    \/ \E n \in 1..MaxVideoFrames, ok \in BOOLEAN :
          \E scores \in [1..n -> ScoreValues] : TakeBatch(scores, ok)
    \/ \E i \in 1..MaxVideoFrames, ok \in BOOLEAN : SaveImage(i, ok)
    \/ SavesJoin
    \/ AddPrefix
    \/ SignalReadiness

(***************************************************************************)
(* The selection functions applied to one scored batch:                    *)
(* BestFramesExtractor._get_best_frames,                                   *)
(* TopImagesExtractor._get_top_percent_images (extractors.py) and          *)
(* TopFramesSelector.save_top_frames                                       *)
(* (frames_evaluators_service/app/top_frames_selector.py).                 *)
(***************************************************************************)
SelScores == 1..MaxScore
SelGroupSizes == 1..(MaxGroup + 1)
PercentValues == {0, 25, 50, 75, 80, 100}

\* the images of a batch, named by their position in it
ImagesOf(scores) == [i \in DOMAIN scores |-> i]

\* the k-th smallest of the scores
KthSmallest(scores, k) ==
    CHOOSE v \in {scores[i] : i \in DOMAIN scores} :
        /\ Cardinality({i \in DOMAIN scores : scores[i] < v}) < k
        /\ Cardinality({i \in DOMAIN scores : scores[i] <= v}) >= k

\* np.percentile(scores, percent), linear interpolation, times 100
Percentile_fromTop(scores, percent) ==
    LET rank == (100 - percent) * (Len(scores) - 1)
        lo == rank \div 100
        frac == rank % 100
    IN  IF frac = 0 THEN 100 * KthSmallest(scores, lo + 1)
        ELSE 100 * KthSmallest(scores, lo + 1)
             + frac * (KthSmallest(scores, lo + 2) - KthSmallest(scores, lo + 1))

Percentile(scores, percent) ==
    LET rank == percent * (Len(scores) - 1)
        lo == rank \div 100
        frac == rank % 100
    IN  IF frac = 0 THEN 100 * KthSmallest(scores, lo + 1)
        ELSE 100 * KthSmallest(scores, lo + 1)
             + frac * (KthSmallest(scores, lo + 2) - KthSmallest(scores, lo + 1))

\* [x for i, x in enumerate(seq) if i in keep]
Retain(seq, keep) ==
    [k \in 1..Cardinality(keep) |->
        seq[CHOOSE p \in keep : Cardinality({q \in keep : q < p}) = k - 1]]

\* _get_top_percent_images, lines 343-346
GetTopPercentImages(images, scores, top_percent) ==
    LET threshold == Percentile(scores, top_percent)
    IN  Retain(images, {i \in DOMAIN scores : 100 * scores[i] >= threshold})

\* list.sort(key=score, reverse=True): descending, equal scores keep their order
SortedByScoreDescending(images, scores) ==
    [k \in DOMAIN scores |->
        images[CHOOSE i \in DOMAIN scores :
                  Cardinality({j \in DOMAIN scores : scores[j] > scores[i]})
                  + Cardinality({j \in DOMAIN scores : j < i /\ scores[j] = scores[i]})
                  = k - 1]]

\* save_top_frames, lines 105-109: the frames handed to save_ndarray_frame, in order
SavedTopFrames(images, scores, threshold_percentile) ==
    LET threshold == Percentile(scores, threshold_percentile)
        ordered == SortedByScoreDescending(images, scores)
    IN  Retain(ordered, {k \in DOMAIN ordered : 100 * scores[ordered[k]] > threshold})

SelectOff ==
    /\ batch_scores = <<>>
    /\ selector = "off"
    /\ selector_arg = 0
    /\ selected = <<>>
    /\ prev_top = [percent |-> 0 - 1, count |-> 0]

\* a non-empty batch was scored
SelectInit ==
    /\ batch_scores \in UNION {[1..n -> SelScores] : n \in 1..MaxImages}
    /\ selector = "none"
    /\ selector_arg = 0
    /\ selected = <<>>
    /\ prev_top = [percent |-> 0 - 1, count |-> 0]

\* what the last top-percent selection was, for the next one to compare with
TopHistory ==
    IF selector = "top" THEN [percent |-> selector_arg, count |-> Len(selected)]
    ELSE [percent |-> 0 - 1, count |-> 0]

CallGetBestFrames(group_size) ==
    /\ selector # "off"
    /\ selected' = GetBestFrames(ImagesOf(batch_scores), batch_scores, group_size)
    /\ selector' = "best"
    /\ selector_arg' = group_size
    /\ prev_top' = TopHistory
    /\ UNCHANGED batch_scores

CallGetTopPercentImages(top_percent) ==
    /\ selector # "off"
    /\ selected' = GetTopPercentImages(ImagesOf(batch_scores), batch_scores, top_percent)
    /\ selector' = "top"
    /\ selector_arg' = top_percent
    /\ prev_top' = TopHistory
    /\ UNCHANGED batch_scores

CallSaveTopFrames(threshold_percentile) ==
    /\ selector # "off"
    /\ selected' = SavedTopFrames(ImagesOf(batch_scores), batch_scores,
                                  threshold_percentile)
    /\ selector' = "saved"
    /\ selector_arg' = threshold_percentile
    /\ prev_top' = TopHistory
    /\ UNCHANGED batch_scores

SelectNext ==
    \/ \E group_size \in SelGroupSizes : CallGetBestFrames(group_size)
    \/ \E top_percent \in PercentValues : CallGetTopPercentImages(top_percent)
    \/ \E threshold_percentile \in PercentValues : CallSaveTopFrames(threshold_percentile)

(***************************************************************************)
(* TopImagesExtractor.process (extractor_service/app/extractors.py) with   *)
(* Extractor._read_images.                                                 *)
(***************************************************************************)
Paths == 1..MaxPaths
ImagesExtensions == {".jpg"}
TopImagesPercent == 90
ImageEntries == [name : {<<Stems[1]>>}, suffix : {".jpg", ".txt"},
                 is_file : {TRUE}, readable : BOOLEAN]

\* the paths of the batch starting at batch_index (line 318)
BatchPaths ==
    SubSeq(images_paths, batch_index + 1,
           Min(batch_index + top_batch_size, Len(images_paths)))

TopOff ==
    /\ image_dir = [p \in Paths |-> [name |-> <<Stems[1]>>, suffix |-> ".txt",
                                     is_file |-> TRUE, readable |-> FALSE]]
    /\ top_batch_size = 1
    /\ tpc = "off"
    /\ terr = NoneVal
    /\ images_paths = <<>>
    /\ batch_index = 0
    /\ read_tasks = <<>>
    /\ batch_images = <<>>
    /\ top_images = <<>>
    /\ top_evaluators = 0
    /\ top_scored = <<>>
    /\ top_saved = {}

\* process() is called on some directory of images with some batch size
TopInit ==
    /\ image_dir \in [Paths -> ImageEntries]
    /\ top_batch_size \in 0..MaxTopBatch
    /\ tpc = "start"
    /\ terr = NoneVal
    /\ images_paths = <<>>
    /\ batch_index = 0
    /\ read_tasks = <<>>
    /\ batch_images = <<>>
    /\ top_images = <<>>
    /\ top_evaluators = 0
    /\ top_scored = <<>>
    /\ top_saved = {}

\* an exception leaves process()
TopRaise(error) ==
    /\ terr' = error
    /\ tpc' = "raised"

(***************************************************************************)
(* process, line 315: _list_input_directory_files(images_extensions).      *)
(***************************************************************************)
ListImages ==
    /\ tpc = "start"
    /\ LET files == {p \in Paths : Matches(image_dir[p], ImagesExtensions, NoneVal)}
       IN  IF files = {}
           THEN /\ TopRaise("EmptyInputDirectoryError")
                /\ UNCHANGED images_paths
           ELSE /\ images_paths' \in Orders(files)
                /\ tpc' = "evaluator"
                /\ UNCHANGED terr
    /\ UNCHANGED <<image_dir, top_batch_size, batch_index, read_tasks, batch_images,
                   top_images, top_evaluators, top_scored, top_saved>>

(***************************************************************************)
(* process, line 316: _get_image_evaluator; the construction may fail.     *)
(***************************************************************************)
GetTopImageEvaluator(ok) ==
    /\ tpc = "evaluator"
    /\ IF ok
       THEN /\ top_evaluators' = top_evaluators + 1
            /\ tpc' = "batch"
            /\ UNCHANGED terr
       ELSE /\ TopRaise("DownloadingModelWeightsError")
            /\ UNCHANGED top_evaluators
    /\ UNCHANGED <<image_dir, top_batch_size, images_paths, batch_index,
                   read_tasks, batch_images, top_images, top_scored, top_saved>>

(***************************************************************************)
(* process, lines 317-319 and _read_images, lines 142-146: the next batch  *)
(* of paths is taken and one read per path is submitted; range() with a    *)
(* zero batch size raises; past the last batch process() ends (325-327).   *)
(***************************************************************************)
SubmitReads ==
    /\ tpc = "batch"
    /\ IF top_batch_size = 0
       THEN /\ TopRaise("ValueError")
            /\ UNCHANGED read_tasks
       ELSE IF batch_index >= Len(images_paths)
       THEN /\ tpc' = "finished"
            /\ UNCHANGED <<terr, read_tasks>>
       ELSE /\ read_tasks' = [i \in DOMAIN BatchPaths |-> "pending"]
            /\ tpc' = "reading"
            /\ UNCHANGED terr
    /\ UNCHANGED <<image_dir, top_batch_size, images_paths, batch_index, batch_images,
                   top_images, top_evaluators, top_scored, top_saved>>

(***************************************************************************)
(* read_image in a pool thread (image_processors.py, lines 92-98): the     *)
(* image, or None when OpenCV cannot read the file.                        *)
(***************************************************************************)
ReadImage(i) ==
    /\ tpc = "reading"
    /\ i \in DOMAIN read_tasks
    /\ read_tasks[i] = "pending"
    /\ read_tasks' = [read_tasks EXCEPT ![i] =
                         IF image_dir[BatchPaths[i]].readable THEN "image" ELSE "none"]
    /\ UNCHANGED <<image_dir, top_batch_size, tpc, terr, images_paths, batch_index,
                   batch_images, top_images, top_evaluators, top_scored, top_saved>>

\* _read_images, lines 147-151: the results in submission order, None dropped
ReadImagesResult_keepsNone(paths, tasks) == paths

ReadImagesResult(paths, tasks) ==
    Retain(paths, {i \in DOMAIN tasks : tasks[i] # "none"})

(***************************************************************************)
(* _read_images, lines 147-151: every future has a result.                 *)
(***************************************************************************)
CollectReads ==
    /\ tpc = "reading"
    /\ \A i \in DOMAIN read_tasks : read_tasks[i] # "pending"
    /\ batch_images' = ReadImagesResult(BatchPaths, read_tasks)
    /\ tpc' = "read_done"
    /\ UNCHANGED <<image_dir, top_batch_size, terr, images_paths, batch_index,
                   read_tasks, top_images, top_evaluators, top_scored, top_saved>>

(***************************************************************************)
(* process, lines 320-323: the images are normalized, scored by the        *)
(* evaluator and the top ones selected.  Scoring may raise; what scoring   *)
(* and np.percentile do with an empty batch depends on the libraries:      *)
(* either an exception or an empty selection.                              *)
(***************************************************************************)
EvaluateAndSelect(scores, ok) ==
    /\ tpc = "read_done"
    /\ DOMAIN scores = DOMAIN batch_images
    /\ top_scored' = Append(top_scored, top_evaluators)
    /\ IF ok
       THEN /\ top_images' = IF batch_images = <<>> THEN <<>>
                             ELSE GetTopPercentImages(batch_images, scores, TopImagesPercent)
            /\ tpc' = "saving"
            /\ UNCHANGED terr
       ELSE /\ TopRaise("EvaluationError")
            /\ UNCHANGED top_images
    /\ UNCHANGED <<image_dir, top_batch_size, images_paths, batch_index,
                   read_tasks, batch_images, top_evaluators, top_saved>>

(***************************************************************************)
(* process, line 324 and the loop step: _save_images writes the selected   *)
(* images or raises.                                                       *)
(***************************************************************************)
SaveTopImages(ok) ==
    /\ tpc = "saving"
    /\ IF ok
       THEN /\ top_saved' = top_saved \cup {top_images[i] : i \in DOMAIN top_images}
            /\ batch_index' = batch_index + top_batch_size
            /\ tpc' = "batch"
            /\ UNCHANGED terr
       ELSE /\ top_images # <<>>
            /\ TopRaise("SaveError")
            /\ UNCHANGED <<top_saved, batch_index>>
    /\ UNCHANGED <<image_dir, top_batch_size, images_paths, read_tasks, batch_images,
                   top_images, top_evaluators, top_scored>>

TopNext ==
    \/ ListImages
    \/ \E ok \in BOOLEAN : GetTopImageEvaluator(ok)
    \/ SubmitReads
    \/ \E i \in 1..MaxTopBatch : ReadImage(i)
    \/ CollectReads
    \/ \E n \in 0..MaxTopBatch, ok \in BOOLEAN :
          \E scores \in [1..n -> ScoreValues] : EvaluateAndSelect(scores, ok)
    \/ \E ok \in BOOLEAN : SaveTopImages(ok)

(***************************************************************************)
(* _NIMAModel (extractor_service/app/image_evaluators.py): get_model       *)
(* called by the evaluators that concurrent jobs construct, and reset.     *)
(* A thread can be preempted inside the calls get_model makes              *)
(* (_get_model_weights, requests.get, _create_model); the test of line 164 *)
(* with the statement that follows it is one step.                         *)
(***************************************************************************)
NoModel == 0
Statuses == {200, 404}

NimaOff ==
    /\ nima_model = NoModel
    /\ nima_config = NoneVal
    /\ weights_files = {}
    /\ created = 0
    /\ downloads = 0
    /\ mpc = [c \in Calls |-> "off"]
    /\ mcfg = [c \in Calls |-> NoneVal]
    /\ mpath = [c \in Calls |-> NoneVal]
    /\ mret = [c \in Calls |-> NoModel]
    /\ merr = [c \in Calls |-> NoneVal]
    /\ mjob = [c \in Calls |-> "off"]
    /\ mfound = [c \in Calls |-> NoModel]
    /\ mdid = [c \in Calls |-> {}]
    /\ mafter = [c \in Calls |-> FALSE]
    /\ was_reset = FALSE

\* no model is cached; the weights of some configs may be on disk already
NimaInit ==
    /\ nima_model = NoModel
    /\ nima_config = NoneVal
    /\ weights_files \in SUBSET Configs
    /\ created = 0
    /\ downloads = 0
    /\ mpc = [c \in Calls |-> "idle"]
    /\ mcfg = [c \in Calls |-> NoneVal]
    /\ mpath = [c \in Calls |-> NoneVal]
    /\ mret = [c \in Calls |-> NoModel]
    /\ merr = [c \in Calls |-> NoneVal]
    /\ mjob = [c \in Calls |-> "idle"]
    /\ mfound = [c \in Calls |-> NoModel]
    /\ mdid = [c \in Calls |-> {}]
    /\ mafter = [c \in Calls |-> FALSE]
    /\ was_reset = FALSE

\* an exception leaves get_model
NimaRaise(c, error) ==
    /\ merr' = [merr EXCEPT ![c] = error]
    /\ mpc' = [mpc EXCEPT ![c] = "raised"]

(***************************************************************************)
(* get_model, lines 164-165 and 168: a cached model is returned at once;   *)
(* otherwise the config is stored.  Callers are numbered in the order in   *)
(* which they enter.                                                       *)
(***************************************************************************)
GetModelEnter_storesConfigFirst(c, cfg) ==
    /\ mpc[c] = "idle"
    /\ \A d \in Calls : d < c => mpc[d] # "idle"
    /\ mcfg' = [mcfg EXCEPT ![c] = cfg]
    /\ mjob' = [mjob EXCEPT ![c] = "constructing"]
    /\ mfound' = [mfound EXCEPT ![c] = nima_model]
    /\ mafter' = [mafter EXCEPT ![c] = \E d \in Calls : mpc[d] = "raised"]
    /\ nima_config' = cfg
    /\ mdid' = [mdid EXCEPT ![c] = {"config"}]
    /\ IF nima_model # NoModel
       THEN /\ mret' = [mret EXCEPT ![c] = nima_model]
            /\ mpc' = [mpc EXCEPT ![c] = "returned"]
       ELSE /\ mpc' = [mpc EXCEPT ![c] = "weights"]
            /\ UNCHANGED mret
    /\ UNCHANGED <<nima_model, weights_files, created, downloads, mpath, merr,
                   was_reset>>

GetModelEnter(c, cfg) ==
    /\ mpc[c] = "idle"
    /\ \A d \in Calls : d < c => mpc[d] # "idle"
    /\ mcfg' = [mcfg EXCEPT ![c] = cfg]
    /\ mjob' = [mjob EXCEPT ![c] = "constructing"]
    /\ mfound' = [mfound EXCEPT ![c] = nima_model]
    /\ mafter' = [mafter EXCEPT ![c] = \E d \in Calls : mpc[d] = "raised"]
    /\ IF nima_model # NoModel
       THEN /\ mret' = [mret EXCEPT ![c] = nima_model]
            /\ mpc' = [mpc EXCEPT ![c] = "returned"]
            /\ UNCHANGED <<nima_config, mdid>>
       ELSE /\ nima_config' = cfg
            /\ mdid' = [mdid EXCEPT ![c] = {"config"}]
            /\ mpc' = [mpc EXCEPT ![c] = "weights"]
            /\ UNCHANGED mret
    /\ UNCHANGED <<nima_model, weights_files, created, downloads, mpath, merr,
                   was_reset>>

(***************************************************************************)
(* _get_model_weights, lines 191-201: the path is computed from the stored *)
(* config (None after a reset: AttributeError) and looked up.              *)
(***************************************************************************)
GetModelWeights(c) ==
    /\ mpc[c] = "weights"
    /\ mdid' = [mdid EXCEPT ![c] = @ \cup {"lookup"}]
    /\ IF nima_config = NoneVal
       THEN /\ NimaRaise(c, "AttributeError")
            /\ UNCHANGED mpath
       ELSE /\ mpath' = [mpath EXCEPT ![c] = nima_config]
            /\ mpc' = [mpc EXCEPT ![c] =
                          IF nima_config \in weights_files THEN "create" ELSE "download"]
            /\ UNCHANGED merr
    /\ UNCHANGED <<nima_model, nima_config, weights_files, created, downloads,
                   mcfg, mret, mjob, mfound, mafter, was_reset>>

(***************************************************************************)
(* _download_model_weights, lines 215-226: the response arrives; 200 has   *)
(* the weights written, any other status raises.                           *)
(***************************************************************************)
DownloadModelWeights_writesAnyResponse(c, status) ==
    /\ mpc[c] = "download"
    /\ nima_config # NoneVal
    /\ mdid' = [mdid EXCEPT ![c] = @ \cup {"download", "write"}]
    /\ weights_files' = weights_files \cup {mpath[c]}
    /\ IF status = 200
       THEN /\ downloads' = downloads + 1
            /\ mpc' = [mpc EXCEPT ![c] = "create"]
            /\ UNCHANGED merr
       ELSE /\ NimaRaise(c, "DownloadingModelWeightsError")
            /\ UNCHANGED downloads
    /\ UNCHANGED <<nima_model, nima_config, created, mcfg, mpath, mret, mjob,
                   mfound, mafter, was_reset>>

DownloadModelWeights(c, status) ==
    /\ mpc[c] = "download"
    /\ nima_config # NoneVal
    /\ IF status = 200
       THEN /\ mdid' = [mdid EXCEPT ![c] = @ \cup {"download", "write"}]
            /\ weights_files' = weights_files \cup {mpath[c]}
            /\ downloads' = downloads + 1
            /\ mpc' = [mpc EXCEPT ![c] = "create"]
            /\ UNCHANGED merr
       ELSE /\ mdid' = [mdid EXCEPT ![c] = @ \cup {"download"}]
            /\ NimaRaise(c, "DownloadingModelWeightsError")
            /\ UNCHANGED <<weights_files, downloads>>
    /\ UNCHANGED <<nima_model, nima_config, created, mcfg, mpath, mret, mjob,
                   mfound, mafter, was_reset>>

(***************************************************************************)
(* _download_model_weights, lines 215-217: no response at all (the request *)
(* raises), or the stored config is None after a reset.                    *)
(***************************************************************************)
DownloadRequestRaises(c) ==
    /\ mpc[c] = "download"
    /\ mdid' = [mdid EXCEPT ![c] = @ \cup {"download"}]
    /\ NimaRaise(c, IF nima_config = NoneVal THEN "AttributeError"
                    ELSE "RequestException")
    /\ UNCHANGED <<nima_model, nima_config, weights_files, created, downloads,
                   mcfg, mpath, mret, mjob, mfound, mafter, was_reset>>

(***************************************************************************)
(* get_model, lines 167-168: the model is constructed, stored and returned.*)
(***************************************************************************)
CreateModel(c) ==
    /\ mpc[c] = "create"
    /\ created' = created + 1
    /\ nima_model' = created + 1
    /\ mret' = [mret EXCEPT ![c] = created + 1]
    /\ mdid' = [mdid EXCEPT ![c] = @ \cup {"create"}]
    /\ mpc' = [mpc EXCEPT ![c] = "returned"]
    /\ UNCHANGED <<nima_config, weights_files, downloads, mcfg, mpath, merr, mjob,
                   mfound, mafter, was_reset>>

(***************************************************************************)
(* InceptionResNetNIMA.__init__ (line 93), _get_image_evaluator            *)
(* (extractors.py, line 80) and process (lines 254, 316): nothing catches  *)
(* an exception of get_model, it leaves process(); otherwise the job has   *)
(* its evaluator.                                                          *)
(***************************************************************************)
LeaveGetImageEvaluator(c) ==
    /\ mjob[c] = "constructing"
    /\ mpc[c] \in {"returned", "raised"}
    /\ mjob' = [mjob EXCEPT ![c] = IF mpc[c] = "raised" THEN "aborted"
                                   ELSE "has_evaluator"]
    /\ UNCHANGED <<nima_model, nima_config, weights_files, created, downloads, mpc,
                   mcfg, mpath, mret, merr, mfound, mdid, mafter, was_reset>>

(***************************************************************************)
(* reset, lines 150-151.                                                   *)
(***************************************************************************)
Reset ==
    /\ \E c \in Calls : mpc[c] # "idle"
    /\ nima_model' = NoModel
    /\ nima_config' = NoneVal
    /\ was_reset' = TRUE
    /\ UNCHANGED <<weights_files, created, downloads, mpc, mcfg, mpath, mret, merr,
                   mjob, mfound, mdid, mafter>>

NimaNext ==
    \/ \E c \in Calls, cfg \in Configs : GetModelEnter(c, cfg)
    \/ \E c \in Calls : GetModelWeights(c)
    \/ \E c \in Calls, status \in Statuses : DownloadModelWeights(c, status)
    \/ \E c \in Calls : DownloadRequestRaises(c)
    \/ \E c \in Calls : CreateModel(c)
    \/ \E c \in Calls : LeaveGetImageEvaluator(c)
    \/ Reset

(***************************************************************************)
(* EvaluatorsManager (frames_evaluators_service/app/evaluators_manager.py):*)
(* the endpoints of main.py are plain functions, so requests run on        *)
(* threads of their own; each admitted request starts a worker thread.     *)
(***************************************************************************)
EvaluatorNames == {"BestFramesExtractor", "TopFramesSelector"}

EvalOff ==
    /\ active_evaluator = NoneVal
    /\ epc = [c \in Calls |-> "off"]
    /\ ename = [c \in Calls |-> NoneVal]
    /\ wpc = [c \in Calls |-> "off"]
    /\ woutcome = [c \in Calls |-> "none"]

\* __init__, line 36
EvalInit ==
    /\ active_evaluator = NoneVal
    /\ epc = [c \in Calls |-> "idle"]
    /\ ename = [c \in Calls |-> NoneVal]
    /\ wpc = [c \in Calls |-> "none"]
    /\ woutcome = [c \in Calls |-> "none"]

(***************************************************************************)
(* start_evaluation_process, line 58: check_is_already_evaluating raises   *)
(* 409 when active_evaluator is set.  Requests are numbered in the order   *)
(* in which they arrive.                                                   *)
(***************************************************************************)
CheckIsAlreadyEvaluating(c, name) ==
    /\ epc[c] = "idle"
    /\ \A d \in Calls : d < c => epc[d] # "idle"
    /\ ename' = [ename EXCEPT ![c] = name]
    /\ epc' = [epc EXCEPT ![c] = IF active_evaluator # NoneVal THEN "409"
                                 ELSE "admitted"]
    /\ UNCHANGED <<active_evaluator, wpc, woutcome>>

(***************************************************************************)
(* start_evaluation_process, lines 59-61: the worker thread is created and *)
(* started.                                                                *)
(***************************************************************************)
ThreadStart(c) ==
    /\ epc[c] = "admitted"
    /\ epc' = [epc EXCEPT ![c] = "thread_started"]
    /\ wpc' = [wpc EXCEPT ![c] = "started"]
    /\ UNCHANGED <<active_evaluator, ename, woutcome>>

(***************************************************************************)
(* start_evaluation_process, lines 62-64: the name is assigned after the   *)
(* thread was started, and the message returned.                           *)
(***************************************************************************)
AssignActiveEvaluator(c) ==
    /\ epc[c] = "thread_started"
    /\ active_evaluator' = ename[c]
    /\ epc' = [epc EXCEPT ![c] = "returned"]
    /\ UNCHANGED <<ename, wpc, woutcome>>

(***************************************************************************)
(* __background_process, lines 80-81: the evaluator is constructed and     *)
(* process() runs; either may raise.                                       *)
(***************************************************************************)
BackgroundProcess(c, how) ==
    /\ wpc[c] = "started"
    /\ woutcome' = [woutcome EXCEPT ![c] = how]
    /\ wpc' = [wpc EXCEPT ![c] = "finally"]
    /\ UNCHANGED <<active_evaluator, epc, ename>>

(***************************************************************************)
(* __background_process, finally block, line 83; the thread ends.          *)
(***************************************************************************)
BackgroundFinally(c) ==
    /\ wpc[c] = "finally"
    /\ active_evaluator' = NoneVal
    /\ wpc' = [wpc EXCEPT ![c] = "finished"]
    /\ UNCHANGED <<epc, ename, woutcome>>

EvalNext ==
    \/ \E c \in Calls, name \in EvaluatorNames : CheckIsAlreadyEvaluating(c, name)
    \/ \E c \in Calls : ThreadStart(c)
    \/ \E c \in Calls : AssignActiveEvaluator(c)
    \/ \E c \in Calls, how \in {"returned", "raised"} : BackgroundProcess(c, how)
    \/ \E c \in Calls : BackgroundFinally(c)

(***************************************************************************)
(* Specifications.                                                         *)
(***************************************************************************)
Init == MgrInit /\ SamplerOff /\ JobOff /\ SelectOff /\ TopOff /\ NimaOff /\ EvalOff
Next == MgrNext /\ UNCHANGED <<samplerVars, bfVars, selVars, topVars, nimaVars, evalVars>>
Spec == Init /\ [][Next]_vars

InitSampler == MgrInit /\ SamplerInit /\ JobOff /\ SelectOff /\ TopOff /\ NimaOff /\ EvalOff
NextSampler == SamplerNext /\ UNCHANGED <<mgrVars, bfVars, selVars, topVars, nimaVars, evalVars>>
SpecSampler == InitSampler /\ [][NextSampler]_vars

InitJob == MgrInit /\ SamplerOff /\ JobInit /\ SelectOff /\ TopOff /\ NimaOff /\ EvalOff
NextJob == JobNext /\ UNCHANGED <<mgrVars, selVars, topVars, nimaVars, evalVars>>
SpecJob == InitJob /\ [][NextJob]_vars

InitSelect == MgrInit /\ SamplerOff /\ JobOff /\ SelectInit /\ TopOff /\ NimaOff /\ EvalOff
NextSelect == SelectNext /\ UNCHANGED <<mgrVars, samplerVars, bfVars, topVars, nimaVars, evalVars>>
SpecSelect == InitSelect /\ [][NextSelect]_vars

InitTop == MgrInit /\ SamplerOff /\ JobOff /\ SelectOff /\ TopInit /\ NimaOff /\ EvalOff
NextTop == TopNext /\ UNCHANGED <<mgrVars, samplerVars, bfVars, selVars, nimaVars, evalVars>>
SpecTop == InitTop /\ [][NextTop]_vars

InitNima == MgrInit /\ SamplerOff /\ JobOff /\ SelectOff /\ TopOff /\ NimaInit /\ EvalOff
NextNima == NimaNext /\ UNCHANGED <<mgrVars, samplerVars, bfVars, selVars, topVars, evalVars>>
SpecNima == InitNima /\ [][NextNima]_vars

InitEval ==
    MgrInit /\ SamplerOff /\ JobOff /\ SelectOff /\ TopOff /\ NimaOff /\ EvalInit
NextEval ==
    EvalNext /\ UNCHANGED <<mgrVars, samplerVars, bfVars, selVars, topVars, nimaVars>>
SpecEval == InitEval /\ [][NextEval]_vars

\* process() called on the same directory up to MaxJobRuns more times
NextRuns == (JobNext \/ RunAgain) /\ UNCHANGED <<mgrVars, selVars, topVars, nimaVars, evalVars>>
SpecRuns == InitJob /\ [][NextRuns]_vars

\* one process() call of either pipeline
InitPipeline == InitJob \/ InitTop
NextPipeline == NextJob \/ NextTop
SpecPipeline == InitPipeline /\ [][NextPipeline]_vars

TypeOK ==
    /\ active_extractor \in Names \cup {NoneVal}
    /\ config \in Configs \cup {NoneVal}
    /\ pc \in [Calls -> {"idle", "check", "done"}]
    /\ result \in [Calls -> {"pending", "started", "409", "ValueError"}]
    /\ task \in [Calls -> {"none", "scheduled", "set", "processing", "f87", "finished"}]

(***************************************************************************)
(* Claims about ExtractorManager.                                          *)
(***************************************************************************)
\* the calls that were issued against an idle manager while another such
\* call was between line 66 and line 67
RacedOnIdle == {c \in Calls : "idle" \in seen[c] /\ "raced" \in seen[c]}

\* C1: two start_extractor calls with known names issued concurrently
\* against an idle manager end with exactly one "started" and one 409.
C1_ExactlyOneAccepted ==
    ( /\ Cardinality(RacedOnIdle) = 2
      /\ \A c \in RacedOnIdle : pc[c] = "done" /\ cname[c] \in KnownNames
      /\ \A c \in Calls \ RacedOnIdle : pc[c] = "idle" )
    => \E a \in RacedOnIdle :
          /\ result[a] = "started"
          /\ \A b \in RacedOnIdle \ {a} : result[b] = "409"

\* C2: at most one extractor's process() is executing in any state.
C2_AtMostOneProcessing ==
    Cardinality({c \in Calls : task[c] = "processing"}) <= 1

\* C3: when a job's process() returns or raises, _active_extractor is None
\* again: it is None whenever no background task is between line 83 and
\* line 86, and a call that checks at such a moment is not refused with 409.
C3_IdleAfterJobEnds ==
    /\ []((\A c \in Calls : task[c] \notin {"set", "processing"})
             => active_extractor = NoneVal)
    /\ [][\A c \in Calls :
             (task[c] = "processing" /\ task'[c] # "processing")
                => active_extractor' = NoneVal]_vars
    /\ [][\A c \in Calls :
             (pc[c] = "check" /\ result'[c] = "409")
                => \E a \in Calls : task[a] \in {"set", "processing"}]_vars

\* C3 witness: a job raised and finished, the manager reports None, and a
\* call issued afterwards has been admitted.
C3_Witness ==
    \E a, c \in Calls :
        /\ outcome[a] = "raised" /\ task[a] = "finished"
        /\ "after_raise" \in seen[c]
        /\ result[c] = "started"
        /\ active_extractor = NoneVal

\* C4: a call issued after pipeline A was accepted, and checked while A's
\* process() has not finished, is refused with the 409 that names A.
C4_LaterCallsRejectedNamingA ==
    [][\A c, a \in Calls :
          ( /\ a \in pendingAtStart[c]
            /\ JobPending(a)
            /\ pc[c] = "check" /\ pc'[c] = "done" )
          => (result'[c] = "409" /\ errName'[c] = cname[a])]_vars

\* C5: a call refused with 409 has changed nothing in the manager and has
\* scheduled no task.
C5_RejectedCallChangesNothing ==
    \A c \in Calls : result[c] = "409" => (~changed[c] /\ task[c] = "none")

\* C6: a call with an unknown name never schedules a task and is never
\* accepted; checked while _active_extractor is None it raises ValueError
\* and leaves _active_extractor None and the tasks as they were, and a call
\* with a known name checked while _active_extractor is None is admitted.
C6_UnknownNameFailsAndStaysIdle ==
    /\ [](\A c \in Calls :
            (pc[c] # "idle" /\ cname[c] \notin KnownNames)
               => (task[c] = "none" /\ result[c] \in {"pending", "ValueError", "409"}))
    /\ [][\A c \in Calls :
            ( /\ pc[c] = "check" /\ pc'[c] = "done"
              /\ cname[c] \notin KnownNames
              /\ active_extractor = NoneVal )
            => ( /\ result'[c] = "ValueError"
                 /\ task' = task
                 /\ active_extractor' = NoneVal )]_vars
    /\ [][\A c \in Calls :
            ( /\ pc[c] = "check" /\ pc'[c] = "done"
              /\ cname[c] \in KnownNames
              /\ active_extractor = NoneVal )
            => result'[c] = "started"]_vars

\* C6 witness: an unknown name raised ValueError on an idle manager and a
\* call issued afterwards with a known name has been admitted.
C6_Witness ==
    \E u, c \in Calls :
        /\ result[u] = "ValueError" /\ "idle" \in seen[u]
        /\ "after_value_error" \in seen[c] /\ "idle" \in seen[c]
        /\ cname[c] \in KnownNames
        /\ result[c] = "started"

(***************************************************************************)
(* Claims about BestFramesExtractor.process.                               *)
(***************************************************************************)
\* the frames of video f that are in the output directory
WrittenOf(f) == {o.index : o \in {x \in output : x.video = f}}
CarriesPrefix(f) == dir[f].name[1] = ProcessedVideoPrefix
Listed == {videos_paths[i] : i \in DOMAIN videos_paths}

\* C7: a listed video carries the processed prefix only when every frame
\* chosen from it has been written and no save of it is pending; the rename
\* happens only when the generator is exhausted, every yielded batch has
\* been handled and every submitted save has written its frame.
C7_RenamedOnlyAfterAllFramesWritten ==
    /\ [](\A f \in Listed :
            CarriesPrefix(f) =>
               /\ f \in renamed
               /\ selectedOf[f] \subseteq WrittenOf(f)
               /\ ~(bfpc = "saving" /\ CurrentVideo = f
                      /\ \E i \in DOMAIN saveTasks : saveTasks[i].state = "pending"))
    /\ [][\A f \in Files :
            (~CarriesPrefix(f) /\ dir'[f].name[1] = ProcessedVideoPrefix)
               => /\ gpc = "done"
                  /\ handled = Len(yielded)
                  /\ \A i \in DOMAIN saveTasks : saveTasks[i].state = "written"]_vars

\* C7 witness: a video sampled in at least two batches, with at least two
\* frames chosen and written, has been renamed.
C7_Witness ==
    /\ bfpc = "next_video"
    /\ \E f \in renamed :
          /\ CarriesPrefix(f)
          /\ Cardinality(selectedOf[f]) >= 2
          /\ selectedOf[f] = WrittenOf(f)
    /\ handled >= 2

\* no entry is a file with a video extension and without the prefix
NoCandidateVideo ==
    \A f \in Files :
        \/ ~dir[f].is_file
        \/ dir[f].suffix # ".mp4"
        \/ dir[f].name[1] = ProcessedVideoPrefix

\* C8: when the input directory holds no unprocessed video file, process()
\* raises EmptyInputDirectoryError and the job ends with no output image
\* written, no file renamed, no video opened.
C8_EmptyInputRaisesWithoutOutput ==
    /\ [][(bfpc = "start" /\ NoCandidateVideo)
            => ( /\ bfpc' = "raised"
                 /\ bferr' = "EmptyInputDirectoryError"
                 /\ output' = output
                 /\ dir' = dir )]_vars
    /\ [](bferr = "EmptyInputDirectoryError"
            => ( /\ bfpc = "raised"
                 /\ NoCandidateVideo
                 /\ output = {}
                 /\ renamed = {}
                 /\ gpc = "off"
                 /\ ~signalled ))

\* C8 witness: the job has raised on a directory whose only video file
\* already carries the prefix.
C8_Witness ==
    /\ bferr = "EmptyInputDirectoryError"
    /\ \E f \in Files :
          dir[f].is_file /\ dir[f].suffix = ".mp4" /\ CarriesPrefix(f)

(***************************************************************************)
(* Claims about get_next_frames.                                           *)
(***************************************************************************)
CeilDiv(a, b) == (a + b - 1) \div b
\* every frame the consumer has received, in order
Received == Flatten(yielded)
\* the sampling ran to the end of the video with a batch size >= 1 and
\* every decode succeeded
SampledAllDecoded == gpc = "done" /\ batch_size >= 1 /\ vid.bad = {}

C10_ConcatenationIndependentOfBatchSize ==
    (gpc = "done" /\ batch_size >= 1 /\ prev.state = "done" /\ prev.k >= 1)
       => Received = prev.flat

\* C10 witness: a video of at least three sampled frames, one of them
\* undecodable or not, was sampled with two different batch sizes that cut
\* it into different numbers of batches.
C10_Witness ==
    /\ gpc = "done" /\ prev.state = "done"
    /\ batch_size >= 1 /\ prev.k > batch_size
    /\ Len(prev.flat) >= 3
    /\ Len(yielded) >= 2
    /\ Len(frames_batch) < batch_size

\* the sampling ran to the end of the video with a batch size >= 1
SampledToEnd == gpc = "done" /\ batch_size >= 1

\* C11: with N sampled frames and batch_size k >= 1 the sampler emits
\* ceil(N / k) batches; no batch is empty or longer than k, and every batch
\* but the last holds exactly k frames.
C11_EmitsCeilBatches ==
    /\ batch_size >= 1 =>
          \A b \in DOMAIN yielded :
              /\ Len(yielded[b]) >= 1
              /\ Len(yielded[b]) <= batch_size
              /\ (b < Len(yielded) \/ gpc = "yield_full")
                    => Len(yielded[b]) = batch_size
    /\ SampledToEnd =>
          /\ Len(Received) = CeilDiv(total_frames, frame_rate)
          /\ Len(yielded) = CeilDiv(Len(Received), batch_size)

\* C11 witness: a sampling ended with at least two full batches and a
\* shorter last one.
C11_Witness ==
    /\ SampledToEnd
    /\ Len(yielded) >= 3
    /\ Len(yielded[Len(yielded)]) < batch_size

\* C12 (as stated): an index whose decode failed contributes no element to
\* any yielded batch; batches hold only decoded frames.
C12_FailedIndexSkipped ==
    \A b \in DOMAIN yielded :
        \A i \in DOMAIN yielded[b] : yielded[b][i].decoded

\* C13: a video whose frame rate or frame count is not positive makes
\* get_next_frames fail with ValueError before anything is yielded, and no
\* batch is yielded before both attributes were read and found positive.
C13_InvalidAttributeFailsBeforeYield ==
    /\ (vid.fps2 <= 0 \/ vid.count2 <= 0) =>
          /\ yielded = <<>>
          /\ gpc \notin {"have_total", "loop", "yield_full", "yield_last", "done"}
          /\ gpc = "failed" =>
                gerr = IF vid.opens THEN "ValueError" ELSE "CantOpenVideoCapture"
    /\ (yielded # <<>> \/ frames_batch # <<>>) =>
          /\ vid.fps2 > 0 /\ frame_rate = PyRound(vid.fps2)
          /\ vid.count2 > 0 /\ total_frames = PyRound(vid.count2)

\* C13 witness: the frame rate was valid, the frame count was not, and the
\* sampling failed on it.
C13_Witness ==
    /\ vid.opens /\ vid.fps2 > 0 /\ vid.count2 <= 0
    /\ gpc = "failed" /\ gerr = "ValueError"
    /\ frame_rate >= 1

\* the positions at which get_next_frames holds an open capture
CaptureHeld == {"opened", "have_rate", "have_total", "loop", "yield_full", "yield_last"}
\* the positions at which get_next_frames has ended
SamplingEnded == {"done", "failed", "closed"}

InvalidJobConfig == bfcfg.batch_size < 1 \/ bfcfg.compering_group_size < 1

\* C15 (as stated): a job whose batch_size or comparison group size is
\* below 1 is rejected before any I/O: the directory is not listed, no video
\* is opened, no evaluator is constructed, nothing is written or renamed.
C15_InvalidConfigRejectedBeforeIO ==
    (InvalidJobConfig /\ bfpc # "off") =>
        /\ bfpc \in {"start", "raised"}
        /\ videos_paths = <<>>
        /\ evaluators = 0
        /\ gpc = "off"
        /\ output = {}
        /\ renamed = {}

(***************************************************************************)
(* Claims about the selection functions.                                   *)
(***************************************************************************)
\* the batch positions of the g-th consecutive group of group_size items
GroupOf(g, group_size) ==
    ((g - 1) * group_size + 1)..Min(g * group_size, Len(batch_scores))

\* C16: best-of-group selection over a non-empty batch returns
\* ceil(len / group_size) images, one from each consecutive group, each
\* scoring at least as much as every other image of its group.
C16_BestOfEachGroup ==
    selector = "best" =>
        /\ Len(selected) = CeilDiv(Len(batch_scores), selector_arg)
        /\ \A g \in DOMAIN selected :
              /\ selected[g] \in GroupOf(g, selector_arg)
              /\ \A j \in GroupOf(g, selector_arg) :
                    batch_scores[j] <= batch_scores[selected[g]]

\* C16 witness: a batch whose last group is shorter, with a group whose best
\* image is not its first.
C16_Witness ==
    /\ selector = "best"
    /\ selector_arg >= 2
    /\ Len(batch_scores) % selector_arg # 0
    /\ Len(selected) >= 2
    /\ \E g \in DOMAIN selected : selected[g] # (g - 1) * selector_arg + 1

\* C17: among the images of a group sharing the maximum score the one at
\* the lowest position is selected, and the i-th output comes from the i-th
\* group.
C17_TiesToLowestIndexInGroupOrder ==
    selector = "best" =>
        /\ \A g \in DOMAIN selected :
              \A j \in GroupOf(g, selector_arg) :
                  j < selected[g] => batch_scores[j] < batch_scores[selected[g]]
        /\ \A g, h \in DOMAIN selected : g < h => selected[g] < selected[h]
        /\ \A g \in DOMAIN selected :
              (g - 1) * selector_arg < selected[g] /\ selected[g] <= g * selector_arg

\* C17 witness: two groups at least, one of them with its maximum score
\* shared by two images.
C17_Witness ==
    /\ selector = "best"
    /\ Len(selected) >= 2
    /\ \E g \in DOMAIN selected :
          \E j \in GroupOf(g, selector_arg) :
              j # selected[g] /\ batch_scores[j] = batch_scores[selected[g]]

\* C18 (as stated): top-percent selection retains exactly the images scoring
\* strictly above the percentile; an image scoring the threshold is dropped.
C18_RetainsStrictlyAboveThreshold ==
    selector = "top" =>
        selected = Retain(ImagesOf(batch_scores),
                          {i \in DOMAIN batch_scores :
                               100 * batch_scores[i]
                                  > Percentile(batch_scores, selector_arg)})

C20_OutputPreservesInputOrder ==
    selector \in {"top", "saved"} =>
        \A k, l \in DOMAIN selected : k < l => selected[k] < selected[l]

(***************************************************************************)
(* Claims about the pipelines.                                             *)
(***************************************************************************)
\* C21: within one process() call with scoring enabled the image evaluator
\* is constructed exactly once, before the first batch is scored, and that
\* one instance scores every batch; none is constructed per batch or video.
C21_EvaluatorConstructedOncePerJob ==
    /\ (bfpc # "off" /\ ~bfcfg.all_frames) =>
          /\ evaluators <= 1
          /\ scoredBy \subseteq {1}
          /\ (scoredBy # {} \/ gpc # "off") => evaluators = 1
    /\ tpc # "off" =>
          /\ top_evaluators <= 1
          /\ \A k \in DOMAIN top_scored : top_scored[k] = 1
          /\ tpc \in {"batch", "reading", "read_done", "saving", "finished"}
                => top_evaluators = 1

\* C21 witness: a job with scoring enabled finished two videos, each with a
\* scored batch.
C21_Witness ==
    /\ bfpc = "finished" /\ ~bfcfg.all_frames
    /\ Cardinality(renamed) >= 2
    /\ \A f \in renamed : selectedOf[f] # {}
    /\ scoredBy = {1}

\* the position in the current batch of paths of an image that was read
PositionInBatch(image) == CHOOSE i \in DOMAIN BatchPaths : BatchPaths[i] = image

\* C24: _read_images returns exactly the images whose read succeeded, in
\* the order of the paths; a read that returned None is dropped and does
\* not abort the batch.
C24_ReadImagesDropsNone ==
    tpc = "read_done" =>
        /\ terr = NoneVal
        /\ Len(batch_images)
              = Cardinality({i \in DOMAIN read_tasks : read_tasks[i] = "image"})
        /\ \A i \in DOMAIN BatchPaths :
              image_dir[BatchPaths[i]].readable
                 <=> \E k \in DOMAIN batch_images : batch_images[k] = BatchPaths[i]
        /\ \A k, l \in DOMAIN batch_images :
              k < l => PositionInBatch(batch_images[k]) < PositionInBatch(batch_images[l])

\* C24 witness: a batch of two paths whose first read returned None and
\* whose second succeeded.
C24_Witness ==
    /\ tpc = "read_done"
    /\ read_tasks = <<"none", "image">>
    /\ Len(batch_images) = 1

\* C22: two concurrent get_model callers that find no model cached load it
\* once: without a reset at most one model is constructed, the weights are
\* downloaded at most once and every caller is handed the same instance.
C22_ConcurrentLoadsSerialized ==
    ~was_reset =>
        /\ created <= 1
        /\ downloads <= 1
        /\ \A c, d \in Calls :
               mpc[c] = "returned" /\ mpc[d] = "returned" => mret[c] = mret[d]

\* C23: a download answered with a status other than 200 raises
\* DownloadingModelWeightsError: that call writes no weights file, constructs
\* and returns no model, and its process() never gets an evaluator; with no
\* other call under way no model is cached and no file is at the path; a
\* later call that finds no model looks the weights up again.
C23_FailedDownloadLeavesNothing ==
    \A c \in Calls :
        /\ merr[c] = "DownloadingModelWeightsError" =>
               /\ mpc[c] = "raised"
               /\ {"write", "create"} \cap mdid[c] = {}
               /\ mret[c] = NoModel
               /\ mjob[c] \in {"constructing", "aborted"}
               /\ (\A d \in Calls : d # c => mpc[d] = "idle") /\ ~was_reset =>
                      /\ nima_model = NoModel
                      /\ mpath[c] \notin weights_files
        /\ mafter[c] /\ mfound[c] = NoModel /\ mpc[c] \notin {"idle", "weights"} =>
               "lookup" \in mdid[c]

C23_Witness ==
    \E c, d \in Calls :
        /\ merr[c] = "DownloadingModelWeightsError"
        /\ mjob[c] = "aborted"
        /\ mafter[d]
        /\ mpc[d] = "download"

\* C27: a call that finds a model cached returns that model without storing
\* its config, looking up or downloading weights or constructing anything,
\* and leaves the stored model and config as they are; only reset() clears
\* the stored model or config.
C27_CachedModelReturnedUntouched ==
    [][/\ \A c \in Calls :
              mfound'[c] # NoModel =>
                  /\ mpc'[c] = "returned"
                  /\ mret'[c] = mfound'[c]
                  /\ mdid'[c] = {}
                  /\ mpc[c] = "idle" => UNCHANGED <<nima_model, nima_config>>
       /\ \/ nima_model # NoModel /\ nima_model' = NoModel
          \/ nima_config # NoneVal /\ nima_config' = NoneVal
          => Reset]_vars

C27_Witness ==
    \E c \in Calls :
        /\ mfound[c] # NoModel
        /\ mpc[c] = "returned"
        /\ mret[c] = nima_model
        /\ mcfg[c] # nima_config
        /\ ~was_reset

\* C25: no step of start_extractor changes _active_extractor; while no
\* background task is between its start and its end, an admitted call that
\* has returned included, get_active_extractor() returns None; the name is
\* set only by the step with which an admitted task starts.
C25_ActiveOnlyWhenTaskStarts ==
    /\ [](( \A c \in Calls : task[c] \notin {"set", "processing"} )
             => active_extractor = NoneVal)
    /\ [][/\ ( \E c \in Calls : pc'[c] # pc[c] ) =>
                 active_extractor' = active_extractor
          /\ ( active_extractor' # active_extractor /\ active_extractor' # NoneVal ) =>
                 \E c \in Calls : /\ task[c] = "scheduled"
                                  /\ task'[c] = "set"
                                  /\ active_extractor' = cname[c]]_vars

\* C25 witness: an admitted call has returned, its task has not begun and
\* the manager reports no active extractor.
C25_Witness ==
    \E c \in Calls :
        /\ pc[c] = "done"
        /\ result[c] = "started"
        /\ task[c] = "scheduled"
        /\ active_extractor = NoneVal

\* C28: every job that has been constructed runs with the config passed to
\* the start_extractor call that admitted it.
C28_JobRunsWithOwnConfig ==
    \A c \in Calls :
        task[c] \in {"processing", "f87", "finished"} => jobConfig[c] = ccfg[c]

\* C26: once the worker thread of an admitted request has finished and the
\* request has returned, with no other evaluation under way,
\* active_evaluator is None, so that a new evaluation can be started.
C26_IdleAfterWorkerFinished ==
    \A c \in Calls :
        ( /\ wpc[c] = "finished"
          /\ epc[c] = "returned"
          /\ \A d \in Calls : d # c => epc[d] \in {"idle", "409"} )
        => active_evaluator = NoneVal

\* C29: process() begins the videos one after another in listing order; once
\* the loop has reached the i-th video every earlier one is renamed with its
\* chosen frames written, and the i-th and later ones are not renamed and,
\* beyond the i-th, not begun; an exception on the i-th video ends process()
\* at that point, without the readiness signal.
C29_ExceptionAbortsAtFailingVideo ==
    /\ Len(opened) <= Len(videos_paths)
    /\ \A j \in DOMAIN opened : opened[j] = videos_paths[j]
    /\ video_i >= 1 =>
           /\ Len(opened) \in {video_i - 1, video_i}
           /\ bfpc \in {"sampling", "saving", "raised"} => Len(opened) = video_i
           /\ \A j \in DOMAIN videos_paths :
                  IF j < video_i
                  THEN /\ videos_paths[j] \in renamed
                       /\ CarriesPrefix(videos_paths[j])
                       /\ selectedOf[videos_paths[j]] \subseteq WrittenOf(videos_paths[j])
                  ELSE /\ videos_paths[j] \notin renamed
                       /\ ~CarriesPrefix(videos_paths[j])
    /\ gpc = "failed" => bfpc \in {"sampling", "raised"}
    /\ bfpc = "raised" => ~signalled
    /\ signalled => bfpc = "finished" /\ Len(opened) = Len(videos_paths)

\* C29 witness: the first of two listed videos was extracted and renamed,
\* the second raised, and process() ended with that exception.
C29_Witness ==
    /\ bfpc = "raised"
    /\ Len(videos_paths) = 2
    /\ video_i = 2
    /\ videos_paths[1] \in renamed
    /\ WrittenOf(videos_paths[1]) # {}
    /\ ~CarriesPrefix(videos_paths[2])
    /\ ~signalled

\* C30: a run neither lists nor begins a video that an earlier run on the
\* directory renamed, and every video an earlier run renamed still carries
\* the prefix; a run that found every video file of the directory carrying
\* the prefix ended with EmptyInputDirectoryError at the listing.
C30_RenamedVideosNeverListedAgain ==
    /\ Listed \cap renamedBefore = {}
    /\ \A j \in DOMAIN opened : opened[j] \notin renamedBefore
    /\ \A f \in renamedBefore : CarriesPrefix(f)
    /\ ( /\ bfpc # "start"
         /\ renamed = renamedBefore
         /\ \A f \in Files : dir[f].is_file /\ dir[f].suffix \in VideoExtensions
                                => CarriesPrefix(f) )
       => ( /\ bfpc = "raised"
            /\ bferr = "EmptyInputDirectoryError"
            /\ videos_paths = <<>>
            /\ opened = <<>> )

\* C30 witness: a run renamed every video of the directory and the next run
\* ended with EmptyInputDirectoryError.
C30_Witness ==
    /\ job_runs >= 1
    /\ renamedBefore # {}
    /\ \A f \in Files : dir[f].is_file /\ dir[f].suffix \in VideoExtensions
                           => f \in renamedBefore
    /\ bfpc = "raised"
    /\ bferr = "EmptyInputDirectoryError"

==============================================================================
